---- MODULE Spec2Model ----
(***************************************************************************)
(* A model of function_cache.py: the decorator locally_cached, the         *)
(* wrapper new_func it builds, the key derivation get_hashable_subset and  *)
(* the capacity-control pass control_cache_size.                           *)
(*                                                                         *)
(* Python values are records [t |-> type name, n |-> payload]; a tuple is  *)
(* a sequence of values; a dict / defaultdict is the sequence of its       *)
(* items [k |-> key, v |-> value] in insertion order (the order Python's   *)
(* dict keeps and iterates in).  A raised exception is the exc field of a  *)
(* result record ("" when the call returned).                              *)
(***************************************************************************)
EXTENDS Integers, Sequences, FiniteSets, TLC

\* ---------------------------------------------------------------- bounds
MaxArgs == 1          \* flattened arguments of one call (positional + keyword)
MaxCalls == 3         \* calls of the wrapped function in one behaviour
MaxSize == 2          \* largest max_cache_size a function is wrapped with
StackDepth == 3       \* frames the interpreter allows before RecursionError
MaxLen == 2           \* flattened arguments of a call whose key is derived alone

\* ---------------------------------------------------------------- values
IntVal(n) == [t |-> "int", n |-> n]
False == [t |-> "bool", n |-> 0]
None == [t |-> "NoneType", n |-> 0]
List == [t |-> "list", n |-> 0]            \* a mutable container, e.g. []

\* isinstance(x, Hashable)
Hashable(x) == x.t # "list"

\* a test that takes every value but the factory's False for a stored result
NotFalse(x) == x.t # "bool"

\* truth value of x, as tested by `if x:`
Truthy(x) == x.n # 0

\* argument values a caller passes
Vals == {IntVal(0), IntVal(1), List}

KwNames == {"b", "c"}

Tuples(S, n) == UNION {[1..m -> S] : m \in 0..n}

\* **kwargs: keyword arguments in call order, names distinct
KwArgs(n) ==
    {kw \in Tuples([name : KwNames, val : Vals], n) :
        \A i, j \in 1..Len(kw) : kw[i].name = kw[j].name => i = j}

\* ------------------------------------------------------------ key derivation
\* a key that leaves the keyword arguments out
FlattenPositional(args, kwargs) == args

\* obj = reduce(..., map(map_fn, [args, kwargs])): the positional values
\* followed by the keyword values, keyword names dropped
Flatten(args, kwargs) == args \o [i \in 1..Len(kwargs) |-> kwargs[i].val]

\* the items the generator get_unhashable_item(obj) yields
get_unhashable_item(obj) == SelectSeq(obj, LAMBDA it : ~Hashable(it))

\* consume advances the iterator and returns nothing: its value is None
consume(iterator, n) == None

remove_unhashable(obj, unh) == SelectSeq(obj, LAMBDA it : it # unh)

\* obj is always a tuple here, so list_or_tuple(obj) holds
hashable(obj) == \A i \in 1..Len(obj) : Hashable(obj[i])

\* the lambda wh of get_hashable_subset; depth counts the frames in use
RECURSIVE wh(_, _)
wh(obj, depth) ==
    IF hashable(remove_unhashable(obj, consume(get_unhashable_item(obj), 1)))
       \/ Len(obj) = 0
    THEN "True"
    ELSE IF depth >= StackDepth THEN "RecursionError"
    ELSE wh(obj, depth + 1)

\* return wh() and obj
get_hashable_subset(obj) ==
    IF wh(obj, 1) = "True"
    THEN [exc |-> "", key |-> obj]
    ELSE [exc |-> "RecursionError", key |-> <<>>]

\* ------------------------------------------------------------------ mappings
Keys(cache) == {cache[i].k : i \in 1..Len(cache)}

Index(cache, key) == CHOOSE i \in 1..Len(cache) : cache[i].k = key

Lookup(cache, key) == cache[Index(cache, key)].v

\* a lookup whose factory value is True
GetItemTrue(cache, key) ==
    IF key \in Keys(cache)
    THEN [cache |-> cache, res |-> cache[CHOOSE i \in 1..Len(cache) : cache[i].k = key].v]
    ELSE [cache |-> Append(cache, [k |-> key, v |-> [t |-> "bool", n |-> 1]]),
          res |-> [t |-> "bool", n |-> 1]]

\* a lookup that moves the key it finds to the end of the order
GetItemTouch(cache, key) ==
    IF key \in Keys(cache)
    THEN [cache |-> Append(SelectSeq(cache, LAMBDA e : e.k # key),
                           [k |-> key, v |-> cache[CHOOSE i \in 1..Len(cache) : cache[i].k = key].v]),
          res |-> cache[CHOOSE i \in 1..Len(cache) : cache[i].k = key].v]
    ELSE [cache |-> Append(cache, [k |-> key, v |-> False]), res |-> False]

\* defaultdict(lambda: False).__getitem__: a missing key is first inserted
\* with the factory's value
GetItem(cache, key) ==
    IF key \in Keys(cache)
    THEN [cache |-> cache, res |-> Lookup(cache, key)]
    ELSE [cache |-> Append(cache, [k |-> key, v |-> False]), res |-> False]

\* an assignment that is lost
SetItemLost(cache, key, val) == cache

\* dict.__setitem__: an existing key keeps its place in the order
SetItem(cache, key, val) ==
    IF key \in Keys(cache)
    THEN [cache EXCEPT ![Index(cache, key)].v = val]
    ELSE Append(cache, [k |-> key, v |-> val])

\* dict.pop(key)
Pop(cache, key) == SelectSeq(cache, LAMBDA e : e.k # key)

\* consume(starmap(ccache.pop, ((a,) for a in takewhile(
\*     lambda k: len(ccache) > size, cache.keys()))), None)
RECURSIVE PopWhile(_, _, _, _)
PopWhile(ccache, cache, i, size) ==
    IF i > Len(cache) \/ ~(Len(ccache) > size) THEN ccache
    ELSE PopWhile(Pop(ccache, cache[i].k), cache, i + 1, size)

\* control_cache_size(cache, size): `caller` is the mapping the caller passed,
\* as it is after the call; `local` is what the function's own name `cache`
\* is bound to at its end (line 60 rebinds the name to a copy).
control_cache_size(cache, size) ==
    IF ~cache.none /\ Len(cache.items) > size
    THEN [caller |-> cache,
          local |-> [none |-> FALSE,
                     items |-> PopWhile(cache.items, cache.items, 1, size)]]
    ELSE [caller |-> cache, local |-> cache]

\* ------------------------------------------------------- wrapped computations
Funcs == {"sum", "strict"}

RECURSIVE SumOf(_)
SumOf(obj) == IF Len(obj) = 0 THEN 0 ELSE Head(obj).n + SumOf(Tail(obj))

\* func(*args, **kwargs): "sum" adds its arguments; "strict" does the same
\* but raises when the total is zero
FuncCall(f, obj) ==
    IF f = "strict" /\ SumOf(obj) = 0
    THEN [exc |-> "ComputeError", ret |-> None]
    ELSE [exc |-> "", ret |-> IntVal(SumOf(obj))]

\* ------------------------------------------------------------------ new_func
NoneCache == [none |-> TRUE, items |-> <<>>]
Mapping(items) == [none |-> FALSE, items |-> items]

\* a miss that keeps what a failed computation left: the exception is stored
\* as the result
MissKeepsFailure(f, cache, key, obj) ==
    LET r == FuncCall(f, obj)
        v == IF r.exc # "" THEN [t |-> r.exc, n |-> 1] ELSE r.ret
        c2 == SetItem(cache, key, v)
    IN  [cache |-> Mapping(c2), exc |-> r.exc, ret |-> r.ret, computed |-> 1]

\* lines 143-144, the miss: local_cache[key] = func(*args, **kwargs), then
\* return local_cache[key]; an exception of func leaves before the assignment
Miss(f, cache, key, obj) ==
    LET r == FuncCall(f, obj)
    IN  IF r.exc # ""
        THEN [cache |-> Mapping(cache), exc |-> r.exc, ret |-> None,
              computed |-> 1]
        ELSE LET c2 == SetItem(cache, key, r.ret)
             IN  [cache |-> Mapping(c2), exc |-> "", ret |-> Lookup(c2, key),
                  computed |-> 1]

\* One call of new_func with local_cache bound to the given object.
\* Result: the object after the call, the exception raised ("" if none),
\* the value returned and the number of times func was invoked.
new_func(f, size, local_cache, obj) ==
    LET c0 == control_cache_size(local_cache, size).caller
        hs == get_hashable_subset(obj)
        key == hs.key
    IN  IF hs.exc # ""
        THEN [cache |-> c0, exc |-> hs.exc, ret |-> None, computed |-> 0]
        ELSE IF Len(key) > 0
        THEN IF c0.none
             THEN [cache |-> c0, exc |-> "TypeError", ret |-> None, computed |-> 0]
             ELSE LET g == GetItem(c0.items, key)
                  IN  IF Truthy(g.res)
                      THEN [cache |-> Mapping(g.cache), exc |-> "",
                            ret |-> g.res, computed |-> 0]
                      ELSE Miss(f, g.cache, key, obj)
        ELSE LET r == FuncCall(f, obj)
             IN  [cache |-> c0, exc |-> r.exc, ret |-> r.ret, computed |-> 1]

\* ---------------------------------------------------------------------- state
Threads == {1, 2}

VARIABLES
    func,            \* the function that was wrapped
    max_cache_size,  \* the size it was wrapped with
    shared,          \* the default value of new_func's parameter local_cache
    last,            \* the latest call: its input, its outcome, the mappings
    run,             \* the keys called so far, while they are distinct
    ncalls,          \* calls made so far
    th,              \* the frames of new_func that threads are executing
    returned,        \* what func returned to keyed calls on the default cache
    two,             \* two wrapped functions: their default caches, the latest call
    kx               \* two argument lists, their keys, the cache they leave

vars == <<func, max_cache_size, shared, last, run, ncalls, th, returned, two, kx>>

\* what a caller may pass as local_cache: None, or a defaultdict of its own,
\* empty or already filled, built like the default (a plain dict, which raises
\* KeyError on line 135 for a missing key, is not among the inputs)
Overrides ==
    {NoneCache, Mapping(<<>>), Mapping(<<[k |-> <<IntVal(1)>>, v |-> IntVal(2)]>>)}

\* the object the parameter local_cache is bound to: the default value, which
\* was built once when new_func was defined, unless the caller passes one
Bind(given, ov, dflt) == IF given THEN ov ELSE Mapping(dflt)

\* a default that is rebound to whatever mapping the call used
DefaultRebound(given, dflt, after) == after.items

\* a default that a passed mapping wipes
DefaultWiped(given, dflt, after) == IF given THEN <<>> ELSE after.items

\* the default value after a call that left its local_cache as `after`:
\* the call mutated the default only if local_cache was bound to it
DefaultAfter(given, dflt, after) == IF given THEN dflt ELSE after.items

NoCall ==
    [sel |-> "init", obj |-> <<>>, exc |-> "", ret |-> None, computed |-> 0,
     pre |-> <<>>, given |-> NoneCache, active |-> NoneCache]

Idle == [pc |-> "idle", obj |-> <<>>, val |-> None, exc |-> "", ret |-> None,
         missed |-> FALSE, computed |-> 0]

\* the functions wrapped in the two-function runs
Wrapped == {"f", "g"}

NoCallTwo ==
    [heap |-> [w \in Wrapped |-> <<>>], pre |-> [w \in Wrapped |-> <<>>],
     called |-> "none", obj |-> <<>>, exc |-> "", ret |-> None, computed |-> 0]

NoInput == [args |-> <<>>, kwargs |-> <<>>]
NoKey == [exc |-> "", key |-> <<>>]
NoKeys ==
    [stage |-> "off", in1 |-> NoInput, in2 |-> NoInput, r1 |-> NoKey,
     r2 |-> NoKey, cache |-> <<>>]

Init ==
    /\ func \in Funcs
    /\ max_cache_size \in 1..MaxSize
    /\ shared = <<>>
    /\ last = NoCall
    /\ run = [ok |-> TRUE, keys |-> <<>>]
    /\ ncalls = 0
    /\ th = [t \in Threads |-> Idle]
    /\ returned = {}
    /\ two = NoCallTwo
    /\ kx = NoKeys

\* the keys of the calls so far, as long as every call used the default cache
\* with a non-empty key-able argument tuple not used before, and returned
RunAfter(given, obj, exc) ==
    IF /\ run.ok /\ ~given /\ exc = "" /\ Len(obj) > 0 /\ hashable(obj)
       /\ \A i \in 1..Len(run.keys) : run.keys[i] # obj
    THEN [ok |-> TRUE, keys |-> Append(run.keys, obj)]
    ELSE [ok |-> FALSE, keys |-> <<>>]

\* the pairs (arguments, value) func has returned to calls that derived a key
\* and used the default cache: r is the outcome of one more call
ReturnedAfter(given, obj, r) ==
    IF ~given /\ Len(obj) > 0 /\ r.computed = 1 /\ r.exc = ""
    THEN returned \cup {[k |-> obj, v |-> FuncCall(func, obj).ret]}
    ELSE returned

\* one whole call of the wrapped function, f(*args, **kwargs) when given is
\* FALSE and f(*args, local_cache=ov, **kwargs) when it is TRUE
Call(args, kwargs, given, ov) ==
    /\ ncalls < MaxCalls
    /\ LET obj == Flatten(args, kwargs)
           local_cache == Bind(given, ov, shared)
           r == new_func(func, max_cache_size, local_cache, obj)
       IN  /\ shared' = DefaultAfter(given, shared, r.cache)
           /\ last' = [sel |-> IF given THEN "override" ELSE "default",
                       obj |-> obj, exc |-> r.exc, ret |-> r.ret,
                       computed |-> r.computed, pre |-> shared,
                       given |-> local_cache, active |-> r.cache]
           /\ run' = RunAfter(given, obj, r.exc)
           /\ returned' = ReturnedAfter(given, obj, r)
    /\ ncalls' = ncalls + 1
    /\ UNCHANGED <<func, max_cache_size, th, two, kx>>

CallDefault(args, kwargs) == Call(args, kwargs, FALSE, NoneCache)

CallOverride(args, kwargs, ov) == Call(args, kwargs, TRUE, ov)

Inputs ==
    {in \in [args : Tuples(Vals, MaxArgs), kwargs : KwArgs(MaxArgs)] :
        Len(in.args) + Len(in.kwargs) <= MaxArgs}

Next ==
    \/ \E in \in Inputs : CallDefault(in.args, in.kwargs)
    \/ \E in \in Inputs, ov \in Overrides : CallOverride(in.args, in.kwargs, ov)

Spec == Init /\ [][Next]_vars

\* ------------------------------------------------- sizes that are not positive
\* locally_cached(max_cache_size=n) with n <= 0: lines 117-123 take any value
InitConfig ==
    /\ func \in Funcs
    /\ max_cache_size \in (0 - MaxSize)..0
    /\ shared = <<>>
    /\ last = NoCall
    /\ run = [ok |-> TRUE, keys |-> <<>>]
    /\ ncalls = 0
    /\ th = [t \in Threads |-> Idle]
    /\ returned = {}
    /\ two = NoCallTwo
    /\ kx = NoKeys

SpecConfig == InitConfig /\ [][Next]_vars

\* --------------------------------------------------- the capacity pass alone
\* control_cache_size(local_cache, size=max_cache_size) called on its own on
\* the default cache
Pass ==
    /\ ncalls < MaxCalls
    /\ LET c == control_cache_size(Mapping(shared), max_cache_size).caller
       IN  /\ shared' = c.items
           /\ last' = [sel |-> "pass", obj |-> <<>>, exc |-> "", ret |-> None,
                       computed |-> 0, pre |-> shared,
                       given |-> Mapping(shared), active |-> c]
    /\ ncalls' = ncalls + 1
    /\ UNCHANGED <<func, max_cache_size, run, th, returned, two, kx>>

NextSize ==
    \/ \E in \in Inputs : CallDefault(in.args, in.kwargs)
    \/ Pass

SpecSize == Init /\ [][NextSize]_vars

\* ------------------------------------------------------ two wrapped functions
\* the function each name wraps
FuncOf(w) == IF w = "f" THEN func ELSE "sum"

\* one default mapping for every wrapped function
DefaultCellShared(w) == "f"

\* the default mapping of a wrapped function: decorator(func) runs the def
\* statement of new_func once per function it wraps, and each run evaluates
\* defaultdict(lambda: False) anew
DefaultCell(w) == w

\* the default cache of w in a heap of mappings
CacheOf(w, heap) == heap[DefaultCell(w)]

\* w(*args, **kwargs) on its default cache
CallWrapped(w, args, kwargs) ==
    /\ ncalls < MaxCalls
    /\ LET obj == Flatten(args, kwargs)
           r == new_func(FuncOf(w), max_cache_size,
                         Mapping(CacheOf(w, two.heap)), obj)
       IN  two' = [heap |-> [two.heap EXCEPT ![DefaultCell(w)] = r.cache.items],
                   pre |-> two.heap, called |-> w, obj |-> obj, exc |-> r.exc,
                   ret |-> r.ret, computed |-> r.computed]
    /\ ncalls' = ncalls + 1
    /\ UNCHANGED <<func, max_cache_size, shared, last, run, th, returned, kx>>

NextTwo == \E w \in Wrapped, in \in Inputs : CallWrapped(w, in.args, in.kwargs)

SpecTwo == Init /\ [][NextTwo]_vars

\* ------------------------------------------------------- key derivation alone
\* argument values for key derivation: None is hashable and is what line 111
\* hands to remove_unhashable
KeyVals == Vals \cup {None}

KeyInputs ==
    {in \in [args : Tuples(KeyVals, MaxLen),
             kwargs : Tuples([name : KwNames, val : KeyVals], MaxLen)] :
        /\ Len(in.args) + Len(in.kwargs) <= MaxLen
        /\ \A i, j \in 1..Len(in.kwargs) :
              in.kwargs[i].name = in.kwargs[j].name => i = j}

\* two argument lists are chosen; the function is wrapped with a fixed size
InitKey ==
    /\ func = "sum"
    /\ max_cache_size = MaxSize
    /\ shared = <<>>
    /\ last = NoCall
    /\ run = [ok |-> TRUE, keys |-> <<>>]
    /\ ncalls = 0
    /\ th = [t \in Threads |-> Idle]
    /\ returned = {}
    /\ two = NoCallTwo
    /\ kx \in {[stage |-> "input", in1 |-> a, in2 |-> b, r1 |-> NoKey,
                r2 |-> NoKey, cache |-> <<>>] : a, b \in KeyInputs}

\* lines 124-130 for each argument list: obj, then get_hashable_subset(obj)
DeriveKeys ==
    /\ kx.stage = "input"
    /\ kx' = [kx EXCEPT
                !.stage = "keyed",
                !.r1 = get_hashable_subset(Flatten(kx.in1.args, kx.in1.kwargs)),
                !.r2 = get_hashable_subset(Flatten(kx.in2.args, kx.in2.kwargs))]
    /\ UNCHANGED <<func, max_cache_size, shared, last, run, ncalls, th,
                   returned, two>>

\* the two calls, one after the other, on one empty mapping
CallBoth ==
    /\ kx.stage = "keyed"
    /\ LET c1 == new_func(func, max_cache_size, Mapping(<<>>),
                          Flatten(kx.in1.args, kx.in1.kwargs))
           c2 == new_func(func, max_cache_size, c1.cache,
                          Flatten(kx.in2.args, kx.in2.kwargs))
       IN  kx' = [kx EXCEPT !.stage = "called", !.cache = c2.cache.items]
    /\ UNCHANGED <<func, max_cache_size, shared, last, run, ncalls, th,
                   returned, two>>

NextKey == DeriveKeys \/ CallBoth

SpecKey == InitKey /\ [][NextKey]_vars

\* ------------------------------------------------------------------- threads
\* Two threads call the wrapped function on the default cache, one call each.
\* new_func takes no lock, so the interpreter may switch threads between any
\* two of its statements; each action below is one statement of a frame.

\* lines 123-131: the capacity pass, the flattening and the key derivation
T_Enter(t, args, kwargs) ==
    /\ th[t].pc = "idle"
    /\ LET obj == Flatten(args, kwargs)
           c0 == control_cache_size(Mapping(shared), max_cache_size).caller
           hs == get_hashable_subset(obj)
       IN  /\ shared' = c0.items
           /\ th' = [th EXCEPT ![t] =
                  IF hs.exc # ""
                  THEN [@ EXCEPT !.pc = "done", !.obj = obj, !.exc = hs.exc]
                  ELSE IF Len(hs.key) > 0
                  THEN [@ EXCEPT !.pc = "read", !.obj = obj]
                  ELSE [@ EXCEPT !.pc = "bypass", !.obj = obj]]
    /\ UNCHANGED <<func, max_cache_size, last, run, ncalls, returned, two, kx>>

\* lines 135-139: res = local_cache[key]; if res: return res
T_Read(t) ==
    /\ th[t].pc = "read"
    /\ LET g == GetItem(shared, th[t].obj)
       IN  /\ shared' = g.cache
           /\ th' = [th EXCEPT ![t] =
                  IF Truthy(g.res)
                  THEN [@ EXCEPT !.pc = "done", !.ret = g.res]
                  ELSE [@ EXCEPT !.pc = "compute", !.missed = TRUE]]
    /\ UNCHANGED <<func, max_cache_size, last, run, ncalls, returned, two, kx>>

\* line 143, right-hand side: func(*args, **kwargs)
T_Compute(t) ==
    /\ th[t].pc = "compute"
    /\ LET r == FuncCall(func, th[t].obj)
       IN  th' = [th EXCEPT ![t] =
                  IF r.exc # ""
                  THEN [@ EXCEPT !.pc = "done", !.exc = r.exc, !.computed = 1]
                  ELSE [@ EXCEPT !.pc = "store", !.val = r.ret, !.computed = 1]]
    /\ UNCHANGED <<func, max_cache_size, shared, last, run, ncalls, returned, two, kx>>

\* line 143, the assignment: local_cache[key] = ...
T_Store(t) ==
    /\ th[t].pc = "store"
    /\ shared' = SetItem(shared, th[t].obj, th[t].val)
    /\ th' = [th EXCEPT ![t].pc = "return"]
    /\ UNCHANGED <<func, max_cache_size, last, run, ncalls, returned, two, kx>>

\* line 144: return local_cache[key]
T_Return(t) ==
    /\ th[t].pc = "return"
    /\ LET g == GetItem(shared, th[t].obj)
       IN  /\ shared' = g.cache
           /\ th' = [th EXCEPT ![t] = [@ EXCEPT !.pc = "done", !.ret = g.res]]
    /\ UNCHANGED <<func, max_cache_size, last, run, ncalls, returned, two, kx>>

\* line 148: return func(*args, **kwargs)
T_Bypass(t) ==
    /\ th[t].pc = "bypass"
    /\ LET r == FuncCall(func, th[t].obj)
       IN  th' = [th EXCEPT ![t] =
                  [@ EXCEPT !.pc = "done", !.exc = r.exc, !.ret = r.ret,
                            !.computed = 1]]
    /\ UNCHANGED <<func, max_cache_size, shared, last, run, ncalls, returned, two, kx>>

NextThreads ==
    \/ \E t \in Threads, in \in Inputs : T_Enter(t, in.args, in.kwargs)
    \/ \E t \in Threads : T_Read(t)
    \/ \E t \in Threads : T_Compute(t)
    \/ \E t \in Threads : T_Store(t)
    \/ \E t \in Threads : T_Return(t)
    \/ \E t \in Threads : T_Bypass(t)

SpecThreads == Init /\ [][NextThreads]_vars

\* ---------------------------------------------------------------- properties
Returned(c) == c.sel # "init" /\ c.exc = ""

\* the call derived a key: a non-empty tuple of hashable values
Keyed(c) == c.sel # "init" /\ Len(c.obj) > 0 /\ hashable(c.obj)

\* the step is one call on the default cache right after another, same arguments
Repeated ==
    /\ ncalls' = ncalls + 1
    /\ last.sel = "default" /\ last'.sel = "default"
    /\ Keyed(last) /\ last'.obj = last.obj

\* C1: after N > max_cache_size calls with pairwise distinct key-able argument
\* tuples on the default cache, the cache holds exactly max_cache_size entries,
\* the most recently inserted keys.
C1_KeepsNewest ==
    (run.ok /\ Len(run.keys) > max_cache_size) =>
        /\ Len(shared) = max_cache_size
        /\ Keys(shared) =
             {run.keys[i] : i \in (Len(run.keys) - max_cache_size + 1)..Len(run.keys)}

\* C2: right after a call that inserted an entry, the cache the call used holds
\* at most max_cache_size entries.
C2_SizeBounded ==
    (last.sel # "init" /\ Len(last.active.items) > Len(last.given.items)) =>
        Len(last.active.items) <= max_cache_size

\* C3 as stated: two successive calls with the same key-able arguments return
\* the same result and invoke compute at most once between them.
C3_Original ==
    [][(Repeated /\ Returned(last) /\ Returned(last')) =>
          /\ last'.ret = last.ret
          /\ last.computed + last'.computed <= 1]_vars

\* C3, amended: the same, for arguments whose computed result is truthy.
C3_Idempotent ==
    [][(/\ Repeated
        /\ FuncCall(func, last.obj).exc = ""
        /\ Truthy(FuncCall(func, last.obj).ret)) =>
          /\ Returned(last) /\ Returned(last')
          /\ last'.ret = last.ret
          /\ last.computed + last'.computed <= 1]_vars

\* the second of two calls with the same arguments was served from the cache
C3_Witness ==
    /\ ncalls = 2 /\ last.sel = "default" /\ Keyed(last)
    /\ last.obj \in Keys(last.pre)
    /\ Returned(last) /\ last.computed = 0

\* C4: a call with an unhashable argument never raises from the cache layer,
\* invokes compute exactly once and returns its result, and adds no entry when
\* no key-able element remains.
C4_Original ==
    (last.sel # "init" /\ ~hashable(last.obj)) =>
        /\ last.exc \notin {"RecursionError", "TypeError"}
        /\ last.computed = 1
        /\ last.exc = FuncCall(func, last.obj).exc
        /\ last.ret = FuncCall(func, last.obj).ret
        /\ (Len(SelectSeq(last.obj, Hashable)) = 0 => last.active = last.given)

\* C5: when compute raises on key-able arguments, the error reaches the caller
\* and the mapping is as it was before the call.
C5_Original ==
    (Keyed(last) /\ last.exc = "ComputeError") => last.active = last.given

\* C6: when compute raised on key-able arguments, the next call with the same
\* arguments on the same cache invokes compute again.
C6_RecomputesAfterFailure ==
    [][(Repeated /\ last.exc = "ComputeError") => last'.computed = 1]_vars

\* the second of two calls with the same arguments, both failing
C6_Witness ==
    /\ ncalls = 2 /\ last.sel = "default" /\ Keyed(last)
    /\ last.obj \in Keys(last.pre)
    /\ last.exc = "ComputeError" /\ last.computed = 1

\* C8: a call that passes local_cache=None invokes compute exactly once and
\* returns its result, whatever the arguments, and never fails on the sentinel
\* (stated for the arguments key derivation accepts).
C8_Original ==
    (last.sel = "override" /\ last.given = NoneCache /\ hashable(last.obj)) =>
        /\ last.exc # "TypeError"
        /\ last.computed = 1
        /\ last.exc = FuncCall(func, last.obj).exc
        /\ last.ret = FuncCall(func, last.obj).ret

\* C9: a call that passes its own local_cache leaves the default cache as it
\* was, whatever the call did to the mapping it was given.
C9_OverrideLeavesShared ==
    last.sel = "override" => shared = last.pre

\* an overriding call wrote to its own mapping while the default held entries
C9_Witness ==
    /\ last.sel = "override"
    /\ last.active # last.given
    /\ last.pre # <<>>

Blank(c) == c.sel = "override" /\ c.given \in {NoneCache, Mapping(<<>>)}

\* C10 as stated: a call that passes an empty or absent cache resets the default
\* cache, so that nothing learned before it is served afterwards.
C10_Original ==
    [][(/\ ncalls' = ncalls + 1
        /\ Blank(last) /\ last'.sel = "default" /\ Keyed(last')
        /\ last'.obj \in Keys(last.pre)) => last'.computed = 1]_vars

\* C10, amended: such a call does not reset the default cache; the next default
\* call is served every truthy entry learned before it.
C10_OverrideKeepsLearned ==
    [][(/\ ncalls' = ncalls + 1
        /\ Blank(last) /\ last'.sel = "default" /\ Keyed(last')
        /\ last'.obj \in Keys(last.pre)
        /\ Truthy(Lookup(last.pre, last'.obj))) =>
          /\ Returned(last') /\ last'.computed = 0
          /\ last'.ret = Lookup(last.pre, last'.obj)]_vars

\* a call with an empty or absent cache was made after an entry was learned
C10_Witness ==
    /\ Blank(last)
    /\ \E i \in 1..Len(last.pre) : Truthy(last.pre[i].v)

\* the thread's call missed the cache, invoked compute and stored the result
MissedAndStored(t) ==
    /\ th[t].missed /\ th[t].computed = 1
    /\ th[t].pc \in {"return", "done"} /\ th[t].exc = ""

\* C7: the read, check, evict and insert of a call are one critical section:
\* no two concurrent calls with the same key both miss, both compute and both
\* insert (stated for a truthy result, which a serial second call would hit).
C7_Original ==
    \A t, u \in Threads :
        (/\ t # u /\ th[t].obj = th[u].obj
         /\ MissedAndStored(t) /\ MissedAndStored(u)) => ~Truthy(th[t].val)

\* the call looked its key up in a mapping that held it
Stored(c) == Keyed(c) /\ ~c.given.none /\ c.obj \in Keys(c.given.items)

\* C11: a falsy value that compute returned and the call stored is never served:
\* every later call with the same arguments on that cache invokes compute.
C11_FalsyRecomputed ==
    (Stored(last) /\ Lookup(last.given.items, last.obj) = IntVal(0)) =>
        last.computed = 1

\* a call found the zero an earlier call stored under its key
C11_Witness ==
    /\ last.sel = "default" /\ Stored(last)
    /\ Lookup(last.given.items, last.obj) = IntVal(0)
    /\ Returned(last)

\* C17: on a hit (the key is in the active cache with a truthy value) the call
\* returns the stored value, does not invoke compute and leaves the mapping as
\* it was: same keys, same values, same order.
C17_HitLeavesCache ==
    (Stored(last) /\ Truthy(Lookup(last.given.items, last.obj))) =>
        /\ Returned(last)
        /\ last.ret = Lookup(last.given.items, last.obj)
        /\ last.computed = 0
        /\ last.active = last.given

\* a hit on the older of two entries of the default cache
C17_Witness ==
    /\ last.sel = "default" /\ Stored(last)
    /\ Truthy(Lookup(last.pre, last.obj))
    /\ Len(last.pre) = 2 /\ last.pre[1].k = last.obj

\* C12: a function wrapped with max_cache_size zero or negative bypasses the
\* cache on every call: compute is invoked and the mapping is never written
\* (stated for the arguments key derivation accepts).
C12_Original ==
    (max_cache_size <= 0 /\ last.sel # "init" /\ hashable(last.obj)) =>
        /\ last.computed = 1
        /\ last.exc = FuncCall(func, last.obj).exc
        /\ last.active = last.given

\* the newest n items of a mapping
Newest(cache, n) == SubSeq(cache, Len(cache) - n + 1, Len(cache))

\* C15: control_cache_size(cache, size) on a cache with more than size entries
\* leaves that cache with its newest size entries; otherwise it removes nothing.
C15_Original ==
    last.sel = "pass" =>
        shared = IF Len(last.pre) > max_cache_size
                 THEN Newest(last.pre, max_cache_size)
                 ELSE last.pre

\* C19: every truthy entry of the default cache was returned by func to an
\* earlier call with the entry's key as arguments, and so was every value a hit
\* on the default cache returns.
C19_Sound ==
    /\ \A i \in 1..Len(shared) :
          Truthy(shared[i].v) => [k |-> shared[i].k, v |-> shared[i].v] \in returned
    /\ (last.sel = "default" /\ Keyed(last) /\ Returned(last) /\ last.computed = 0) =>
          [k |-> last.obj, v |-> last.ret] \in returned

\* a hit on the default cache
C19_Witness ==
    /\ last.sel = "default" /\ Keyed(last) /\ Returned(last)
    /\ last.computed = 0 /\ Truthy(last.ret)
    /\ returned # {}

\* C13: each wrapped function has its own default cache: a call to one leaves
\* the other's cache as it was, and is a miss when its own cache lacks the key,
\* whatever the other's cache holds.
C13_OwnCache ==
    \A w \in Wrapped :
        two.called = w =>
            /\ \A u \in Wrapped \ {w} : CacheOf(u, two.heap) = CacheOf(u, two.pre)
            /\ (/\ Len(two.obj) > 0 /\ hashable(two.obj)
                /\ two.obj \notin Keys(CacheOf(w, two.pre))) => two.computed = 1

\* g is called with arguments that f's cache holds and g's does not
C13_Witness ==
    /\ two.called = "g" /\ Len(two.obj) > 0
    /\ two.obj \in Keys(CacheOf("f", two.pre))
    /\ Truthy(Lookup(CacheOf("f", two.pre), two.obj))
    /\ two.obj \notin Keys(CacheOf("g", two.pre))
    /\ two.computed = 1

\* the values of a call's arguments, positional first, counted from 1
Count(in) == Len(in.args) + Len(in.kwargs)
Nth(in, i) ==
    IF i <= Len(in.args) THEN in.args[i] ELSE in.kwargs[i - Len(in.args)].val

AllHashable(in) == \A i \in 1..Count(in) : Nth(in, i).t # "list"

SameValues(a, b) ==
    Count(a) = Count(b) /\ \A i \in 1..Count(a) : Nth(a, i) = Nth(b, i)

\* C14: the key of a call is its positional values followed by its keyword
\* values, names dropped: calls with equal value sequences derive one key and
\* share one cache entry, calls with different sequences derive different keys.
C14_KeyIsValues ==
    (kx.stage \in {"keyed", "called"} /\ AllHashable(kx.in1) /\ AllHashable(kx.in2)) =>
        /\ kx.r1.exc = "" /\ Len(kx.r1.key) = Count(kx.in1)
        /\ \A i \in 1..Count(kx.in1) : kx.r1.key[i] = Nth(kx.in1, i)
        /\ (kx.r1.key = kx.r2.key) <=> SameValues(kx.in1, kx.in2)
        /\ (kx.stage = "called" /\ Count(kx.in1) > 0 /\ Count(kx.in2) > 0) =>
              Len(kx.cache) = IF SameValues(kx.in1, kx.in2) THEN 1 ELSE 2

\* f(1, 0) and f(1, b=0) were called and left one entry
C14_Witness ==
    /\ kx.stage = "called"
    /\ kx.in1.args = <<IntVal(1), IntVal(0)>> /\ kx.in1.kwargs = <<>>
    /\ kx.in2.args = <<IntVal(1)>>
    /\ kx.in2.kwargs = <<[name |-> "b", val |-> IntVal(0)]>>
    /\ Len(kx.cache) = 1

\* C16: key derivation terminates and returns the key-able elements of the
\* flattened arguments in their order: all of them when all are key-able, none
\* (no key) when none is.
C16_Original ==
    kx.stage \in {"keyed", "called"} =>
        /\ kx.r1.exc = ""
        /\ kx.r1.key = SelectSeq(Flatten(kx.in1.args, kx.in1.kwargs),
                                 LAMBDA it : it.t # "list")

\* C18: a call for which no key is derivable (no argument, or none that is
\* key-able) bypasses the cache: compute is invoked, its result returned and
\* the mapping left alone.
C18_Original ==
    (last.sel # "init" /\ \A i \in 1..Len(last.obj) : last.obj[i].t = "list") =>
        /\ last.computed = 1
        /\ last.exc = FuncCall(func, last.obj).exc
        /\ last.ret = FuncCall(func, last.obj).ret
        /\ last.active = last.given

====
